---- MODULE Spec2Model ----
(***************************************************************************)
(* Model of util/mrl.py (NLmaps MRL pre- and post-processing).             *)
(*                                                                         *)
(* A Python string is modelled as a sequence of one-character strings, so  *)
(* that searching, splitting and replacing are computed on characters,     *)
(* as the code computes them.  Each function of the code that loops is     *)
(* modelled by a frame record (its local variables and a pc), an operator  *)
(* for one iteration of the loop, and a specification that runs the loop   *)
(* one iteration per step on inputs drawn from a bounded set.              *)
(***************************************************************************)
EXTENDS Integers, Sequences, FiniteSets, TLC

VARIABLES
    ca,     \* frame of MRL.count_arguments
    tt,     \* frame of NLmaps.transform_if_tree
    ln,     \* frame of NLmaps.linearise
    rt,     \* a query taken through preprocess_mrl and then functionalise
    ip,     \* frame of NLmaps.insert_pass_through_words
    ck,     \* frame of NLmaps.check_MRL_tree and the scratch directory
    fn      \* frame of NLmaps.functionalise called with insert_missing_at

vars == <<ca, tt, ln, rt, ip, ck, fn>>

(***************************************************************************)
(* Bounds of the model.                                                    *)
(***************************************************************************)
\* longest tail handed to count_arguments
MaxTail == 6

\* longest list of atoms handed to transform_if_tree
MaxAtoms == 4

\* most tokens (tree nodes) of a query handed to linearise
LinNodes == 5

\* most tokens (tree nodes) of a query taken through the round trip
RoundNodes == 4

\* most atoms of a list handed to insert_pass_through_words
PassAtoms == 2

\* most tokens of a stream handed to insert_pass_through_words
PassWords == 3

\* most atoms of a linear form handed to functionalise with the flag
FunLen == 3

(***************************************************************************)
(* Strings.                                                                *)
(***************************************************************************)
SeqsUpTo(S, n) == UNION {[1..k -> S] : k \in 0..n}

\* c in s
Contains(s, c) == \E k \in 1..Len(s) : s[k] = c

RECURSIVE SplitOn(_, _)
\* s.split(c) (and s.rsplit(c), which without a maxsplit gives the same list):
\* the pieces of s between the occurrences of the character c
SplitOn(s, c) ==
    IF ~Contains(s, c) THEN <<s>>
    ELSE LET k == CHOOSE j \in 1..Len(s) :
                        s[j] = c /\ \A m \in 1..(j - 1) : s[m] # c
         IN <<SubSeq(s, 1, k - 1)>> \o SplitOn(SubSeq(s, k + 1, Len(s)), c)

\* s.replace(c, d) for single characters c and d
ReplaceChar(s, c, d) == [k \in 1..Len(s) |-> IF s[k] = c THEN d ELSE s[k]]

Digits == {"0", "1", "2", "3", "4", "5", "6", "7", "8", "9"}

DigitVal(c) ==
    CASE c = "0" -> 0 [] c = "1" -> 1 [] c = "2" -> 2 [] c = "3" -> 3
      [] c = "4" -> 4 [] c = "5" -> 5 [] c = "6" -> 6 [] c = "7" -> 7
      [] c = "8" -> 8 [] c = "9" -> 9

\* whether int(s) succeeds: an optional sign, then one or more digits
IntParses(s) ==
    LET d == IF s # <<>> /\ s[1] \in {"-", "+"} THEN Tail(s) ELSE s IN
    d # <<>> /\ \A k \in 1..Len(d) : d[k] \in Digits

RECURSIVE DigitsValue(_)
DigitsValue(d) ==
    IF d = <<>> THEN 0
    ELSE 10 * DigitsValue(SubSeq(d, 1, Len(d) - 1)) + DigitVal(d[Len(d)])

\* int(s), for s that parses
IntValue(s) ==
    IF s[1] = "-" THEN 0 - DigitsValue(Tail(s))
    ELSE IF s[1] = "+" THEN DigitsValue(Tail(s))
    ELSE DigitsValue(s)

RECURSIVE IntToStr(_)
\* "%s" % n for an integer n >= 0
IntToStr(n) ==
    LET d == <<"0", "1", "2", "3", "4", "5", "6", "7", "8", "9">> IN
    IF n < 10 THEN <<d[n + 1]>> ELSE IntToStr(n \div 10) \o <<d[(n % 10) + 1]>>

\* s[pos:].startswith(t), pos counted from 0
StartsWithAt(s, pos, t) ==
    /\ pos + Len(t) <= Len(s)
    /\ \A k \in 1..Len(t) : s[pos + k] = t[k]

\* s.endswith(t)
EndsWith(s, t) == Len(t) <= Len(s) /\ StartsWithAt(s, Len(s) - Len(t), t)

RECURSIVE ReplaceFrom(_, _, _, _)
ReplaceFrom(s, pos, old, new) ==
    IF pos >= Len(s) THEN <<>>
    ELSE IF StartsWithAt(s, pos, old)
         THEN new \o ReplaceFrom(s, pos + Len(old), old, new)
         ELSE <<s[pos + 1]>> \o ReplaceFrom(s, pos + 1, old, new)

\* s.replace(old, new) for a non-empty string old: leftmost occurrences,
\* not overlapping
ReplaceAll(s, old, new) == ReplaceFrom(s, 0, old, new)

RECURSIVE JoinWith(_, _)
\* sep.join(list)
JoinWith(list, sep) ==
    IF list = <<>> THEN <<>>
    ELSE IF Len(list) = 1 THEN list[1]
    ELSE list[1] \o sep \o JoinWith(Tail(list), sep)

\* the characters \s matches; the modelled texts hold no other whitespace
Whitespace == {" "}

RECURSIVE Strip(_)
\* s.strip()
Strip(s) ==
    IF s # <<>> /\ s[1] \in Whitespace THEN Strip(Tail(s))
    ELSE IF s # <<>> /\ s[Len(s)] \in Whitespace
         THEN Strip(SubSeq(s, 1, Len(s) - 1))
         ELSE s

RECURSIVE CollapseWhitespace(_)
\* re.sub(r"\s+", " ", s): every run of whitespace becomes one space
CollapseWhitespace(s) ==
    IF s = <<>> THEN <<>>
    ELSE IF s[1] \in Whitespace
         THEN IF Len(s) > 1 /\ s[2] \in Whitespace
              THEN CollapseWhitespace(Tail(s))
              ELSE <<" ">> \o CollapseWhitespace(Tail(s))
         ELSE <<s[1]>> \o CollapseWhitespace(Tail(s))

\* the characters \w matches (no re.UNICODE flag)
WordChars ==
    { "a", "b", "c", "d", "e", "f", "g", "h", "i", "j", "k", "l", "m",
      "n", "o", "p", "q", "r", "s", "t", "u", "v", "w", "x", "y", "z",
      "A", "B", "C", "D", "E", "F", "G", "H", "I", "J", "K", "L", "M",
      "N", "O", "P", "Q", "R", "S", "T", "U", "V", "W", "X", "Y", "Z",
      "_" } \cup Digits

\* \b matches at offset pos of s: exactly one of the characters before and
\* after the offset is a word character
WordBoundary(s, pos) ==
    (pos > 0 /\ s[pos] \in WordChars)
        # (pos < Len(s) /\ s[pos + 1] \in WordChars)

(***************************************************************************)
(* Regular expressions of the code (re.sub), matched as the backtracking   *)
(* matcher of re matches them.  A pattern is a sequence of items:          *)
(*   lit c       the character c                                           *)
(*   one cls     one character of the class cls                            *)
(*   lazy cls    cls*?  (cls+? is  one cls, lazy cls)                      *)
(*   greedy cls  cls*                                                      *)
(*   open g / close g   the parentheses of capture group g                 *)
(* A replacement is a sequence of  lit c  and  grp g  (\g<g>) items.       *)
(***************************************************************************)
Lit(c) == [k |-> "lit", c |-> c]
One(cls) == [k |-> "one", cls |-> cls]
Lazy(cls) == [k |-> "lazy", cls |-> cls]
Greedy(cls) == [k |-> "greedy", cls |-> cls]
Open(g) == [k |-> "open", g |-> g]
Close(g) == [k |-> "close", g |-> g]
Grp(g) == [k |-> "grp", g |-> g]

\* a literal text as pattern or replacement items
Lits(s) == [j \in 1..Len(s) |-> Lit(s[j])]

InClass(cls, c) ==
    CASE cls = "notparen" -> c \notin {"(", ")"}          \* [^\(\)]
      [] cls = "any"      -> TRUE                         \* .
      [] cls = "space"    -> c = " "                      \* the space of " *"
      [] cls = "sep"      -> c \in {",", ")", "("}        \* [,\)\(]

NoGroups == [g \in 1..3 |-> [s |-> 0, e |-> 0]]

NoMatch == [ok |-> FALSE, end |-> 0, caps |-> NoGroups]

RECURSIVE Match(_, _, _, _, _)
\* the match of the items pi.. of pat at offset si of s that the matcher
\* finds first: a lazy item tries the rest of the pattern before taking a
\* character, a greedy item takes a character first
Match(pat, pi, s, si, caps) ==
    IF pi > Len(pat) THEN [ok |-> TRUE, end |-> si, caps |-> caps]
    ELSE
    LET it == pat[pi]
        more == si < Len(s) IN
    CASE it.k = "lit" ->
            IF more /\ s[si + 1] = it.c
            THEN Match(pat, pi + 1, s, si + 1, caps) ELSE NoMatch
      [] it.k = "one" ->
            IF more /\ InClass(it.cls, s[si + 1])
            THEN Match(pat, pi + 1, s, si + 1, caps) ELSE NoMatch
      [] it.k = "open" ->
            Match(pat, pi + 1, s, si, [caps EXCEPT ![it.g].s = si])
      [] it.k = "close" ->
            Match(pat, pi + 1, s, si, [caps EXCEPT ![it.g].e = si])
      [] it.k = "lazy" ->
            LET rest == Match(pat, pi + 1, s, si, caps) IN
            IF rest.ok THEN rest
            ELSE IF more /\ InClass(it.cls, s[si + 1])
                 THEN Match(pat, pi, s, si + 1, caps) ELSE NoMatch
      [] it.k = "greedy" ->
            IF more /\ InClass(it.cls, s[si + 1])
            THEN LET taken == Match(pat, pi, s, si + 1, caps) IN
                 IF taken.ok THEN taken
                 ELSE Match(pat, pi + 1, s, si, caps)
            ELSE Match(pat, pi + 1, s, si, caps)

RECURSIVE Expand(_, _, _)
\* the replacement text of a match
Expand(repl, s, caps) ==
    IF repl = <<>> THEN <<>>
    ELSE (IF repl[1].k = "lit" THEN <<repl[1].c>>
          ELSE SubSeq(s, caps[repl[1].g].s + 1, caps[repl[1].g].e))
         \o Expand(Tail(repl), s, caps)

RECURSIVE SubFrom(_, _, _, _)
SubFrom(pat, repl, s, pos) ==
    IF pos >= Len(s) THEN <<>>
    ELSE LET m == Match(pat, 1, s, pos, NoGroups) IN
         IF m.ok
         THEN Expand(repl, s, m.caps) \o SubFrom(pat, repl, s, m.end)
         ELSE <<s[pos + 1]>> \o SubFrom(pat, repl, s, pos + 1)

\* re.sub(pat, repl, s) for a pattern that matches no empty text: leftmost
\* matches, not overlapping
Sub(pat, repl, s) == SubFrom(pat, repl, s, 0)

(***************************************************************************)
(* MRL.count_arguments (mrl.py 60-88).                                     *)
(***************************************************************************)
\* the locals before the loop (mrl.py 67-70)
CountInit(s) ==
    [s |-> s, args_found |-> FALSE, num_brackets |-> 0, num_commas |-> 0,
     i |-> 0, pc |-> "loop", ret |-> 0]

\* the while condition (mrl.py 71)
CountLoopCond(st) ==
    /\ st.i < Len(st.s)
    /\ \/ (~st.args_found /\ st.num_brackets = 0)
       \/ (st.args_found /\ st.num_brackets > 0)

\* mutant: a comma is counted at every depth >= 1
CountBodyAnyDepth(st) ==
    LET c == st.s[st.i + 1] IN
    IF c = "(" THEN
        [st EXCEPT !.args_found = TRUE, !.num_brackets = @ + 1, !.i = @ + 1]
    ELSE IF c = ")" THEN
        [st EXCEPT !.num_brackets = @ - 1, !.i = @ + 1]
    ELSE IF st.num_brackets >= 1 /\ c = "," THEN
        [st EXCEPT !.num_commas = @ + 1, !.i = @ + 1]
    ELSE IF st.num_brackets < 1 /\ c = "," THEN
        [st EXCEPT !.pc = "break"]
    ELSE
        [st EXCEPT !.i = @ + 1]

\* mutant: a comma before any parenthesis does not end the scan
CountBodyNoBreak(st) ==
    LET c == st.s[st.i + 1] IN
    IF c = "(" THEN
        [st EXCEPT !.args_found = TRUE, !.num_brackets = @ + 1, !.i = @ + 1]
    ELSE IF c = ")" THEN
        [st EXCEPT !.num_brackets = @ - 1, !.i = @ + 1]
    ELSE IF st.num_brackets = 1 /\ c = "," THEN
        [st EXCEPT !.num_commas = @ + 1, !.i = @ + 1]
    ELSE
        [st EXCEPT !.i = @ + 1]

\* one iteration of the while body (mrl.py 72-82)
CountBody(st) ==
    LET c == st.s[st.i + 1] IN
    IF c = "(" THEN
        [st EXCEPT !.args_found = TRUE, !.num_brackets = @ + 1, !.i = @ + 1]
    ELSE IF c = ")" THEN
        [st EXCEPT !.num_brackets = @ - 1, !.i = @ + 1]
    ELSE IF st.num_brackets = 1 /\ c = "," THEN
        [st EXCEPT !.num_commas = @ + 1, !.i = @ + 1]
    ELSE IF st.num_brackets < 1 /\ c = "," THEN
        [st EXCEPT !.pc = "break"]
    ELSE
        [st EXCEPT !.i = @ + 1]

\* mutant: the unreachable last line of the function, return num_commas
CountReturnCommas(st) ==
    [st EXCEPT !.pc = "done", !.ret = st.num_commas]

\* the return after the loop (mrl.py 83-87); the assert raises when it fails
CountReturn(st) ==
    IF st.args_found THEN
        [st EXCEPT !.pc = "done", !.ret = st.num_commas + 1]
    ELSE IF st.num_commas = 0 THEN
        [st EXCEPT !.pc = "done", !.ret = 0]
    ELSE
        [st EXCEPT !.pc = "raised"]

RECURSIVE CountRun(_)
\* the whole while loop
CountRun(st) ==
    IF st.pc = "loop" /\ CountLoopCond(st) THEN CountRun(CountBody(st)) ELSE st

\* count_arguments(s): the returned number, or -1 when the assert raised
count_arguments(s) ==
    LET st == CountReturn(CountRun(CountInit(s))) IN
    IF st.pc = "done" THEN st.ret ELSE -1

\* the frame of a function that is not running
Idle == [pc |-> "idle"]

CountChars == {"(", ")", ",", "a", ":"}

CountInputs == SeqsUpTo(CountChars, MaxTail)

InitCount ==
    /\ ca \in {CountInit(s) : s \in CountInputs}
    /\ tt = Idle
    /\ ln = Idle
    /\ rt = Idle
    /\ ip = Idle
    /\ ck = Idle
    /\ fn = Idle

\* one iteration of the loop of count_arguments
CountIter ==
    /\ ca.pc = "loop"
    /\ CountLoopCond(ca)
    /\ ca' = CountBody(ca)
    /\ UNCHANGED <<tt, ln, rt, ip, ck, fn>>

\* the loop ends, by its condition or by break, and the function returns
CountExit ==
    /\ \/ (ca.pc = "loop" /\ ~CountLoopCond(ca))
       \/ ca.pc = "break"
    /\ ca' = CountReturn(ca)
    /\ UNCHANGED <<tt, ln, rt, ip, ck, fn>>

NextCount == CountIter \/ CountExit

SpecCount == InitCount /\ [][NextCount]_vars

(***************************************************************************)
(* NLmaps.transform_if_tree (mrl.py 178-224).                              *)
(***************************************************************************)
Keyval == <<"k", "e", "y", "v", "a", "l">>

Findkey == <<"f", "i", "n", "d", "k", "e", "y">>

\* the locals before the loop (mrl.py 185-187); lin is the list of atoms,
\* i the number of atoms the for loop has taken, mrl the joined output list
TreeInit(lin) ==
    [lin |-> lin, i |-> 0, stack_arity |-> <<>>, mrl |-> <<>>, prev |-> <<>>,
     pc |-> "loop", ret |-> <<>>]

RECURSIVE CloseAncestors(_)
\* the while loop that closes completed ancestors (mrl.py 213-220)
CloseAncestors(st) ==
    IF Len(st.stack_arity) > 0 THEN
        LET top == st.stack_arity[Len(st.stack_arity)]
            popped == SubSeq(st.stack_arity, 1, Len(st.stack_arity) - 1) IN
        IF top > 1 THEN
            [st EXCEPT !.mrl = @ \o <<",">>,
                       !.stack_arity = Append(popped, top - 1)]
        ELSE
            CloseAncestors([st EXCEPT !.mrl = @ \o <<")">>,
                                      !.stack_arity = popped])
    ELSE st

\* mutant: the functor is pushed with one argument less
TreeOpenPushLess(st, element, arity) ==
    [st EXCEPT !.mrl = @ \o element \o <<"(">>,
               !.stack_arity = Append(@, arity - 1),
               !.prev = element,
               !.i = @ + 1]

\* the arity > 0 branch (mrl.py 203-205) and the update of prev (221)
TreeOpen(st, element, arity) ==
    [st EXCEPT !.mrl = @ \o element \o <<"(">>,
               !.stack_arity = Append(@, arity),
               !.prev = element,
               !.i = @ + 1]

\* mutant: a string leaf is accepted on an empty stack
TreeLeafNoRootCheck(st, element, arity_s_found) ==
    LET quoted == IF arity_s_found \/ st.prev = Keyval \/ st.prev = Findkey
                  THEN <<"'">> \o ReplaceChar(element, "€", " ") \o <<"'">>
                  ELSE element IN
    CloseAncestors([st EXCEPT !.mrl = @ \o quoted,
                              !.prev = quoted,
                              !.i = @ + 1])

\* mutant: prev keeps the body of the atom, without the quotes
TreeLeafPrevBody(st, element, arity_s_found) ==
    IF arity_s_found /\ Len(st.stack_arity) = 0 THEN
        [st EXCEPT !.pc = "returned", !.ret = <<>>]
    ELSE
        LET quoted == IF arity_s_found \/ st.prev = Keyval \/ st.prev = Findkey
                      THEN <<"'">> \o ReplaceChar(element, "€", " ") \o <<"'">>
                      ELSE element IN
        CloseAncestors([st EXCEPT !.mrl = @ \o quoted,
                                  !.prev = element,
                                  !.i = @ + 1])

\* the arity <= 0 branch (mrl.py 207-220) and the update of prev (221)
TreeLeaf(st, element, arity_s_found) ==
    IF arity_s_found /\ Len(st.stack_arity) = 0 THEN
        [st EXCEPT !.pc = "returned", !.ret = <<>>]
    ELSE
        LET quoted == IF arity_s_found \/ st.prev = Keyval \/ st.prev = Findkey
                      THEN <<"'">> \o ReplaceChar(element, "€", " ") \o <<"'">>
                      ELSE element IN
        CloseAncestors([st EXCEPT !.mrl = @ \o quoted,
                                  !.prev = quoted,
                                  !.i = @ + 1])

\* one iteration of the for loop (mrl.py 189-221) on the next atom.
\* element, arity = element.rsplit("@") raises ValueError unless the split
\* gives exactly two pieces.
TreeBody(st) ==
    LET atom == st.lin[st.i + 1]
        pieces == SplitOn(atom, "@") IN
    IF ~Contains(atom, "@") THEN
        [st EXCEPT !.pc = "returned", !.ret = <<>>]
    ELSE IF Len(pieces) # 2 THEN
        [st EXCEPT !.pc = "raised"]
    ELSE IF pieces[2] = <<"s">> THEN
        TreeLeaf(st, pieces[1], TRUE)
    ELSE IF ~IntParses(pieces[2]) THEN
        [st EXCEPT !.pc = "returned", !.ret = <<>>]
    ELSE IF IntValue(pieces[2]) > 0 THEN
        TreeOpen(st, pieces[1], IntValue(pieces[2]))
    ELSE
        TreeLeaf(st, pieces[1], FALSE)

\* mutant: the result is joined whatever is left on the stack
TreeReturnNoStackCheck(st) ==
    [st EXCEPT !.pc = "returned", !.ret = st.mrl]

\* after the loop (mrl.py 222-224)
TreeReturn(st) ==
    IF Len(st.stack_arity) # 0 THEN
        [st EXCEPT !.pc = "returned", !.ret = <<>>]
    ELSE
        [st EXCEPT !.pc = "returned", !.ret = st.mrl]

RECURSIVE TreeRun(_)
\* the whole for loop
TreeRun(st) ==
    IF st.pc = "loop" /\ st.i < Len(st.lin) THEN TreeRun(TreeBody(st)) ELSE st

\* transform_if_tree(lin): the frame at its end (returned or raised)
transform_if_tree(lin) ==
    LET st == TreeRun(TreeInit(lin)) IN
    IF st.pc = "loop" THEN TreeReturn(st) ELSE st

\* the atoms the reconstructor is run on
TreeAtoms ==
    { <<"a", "@", "0">>,                \* a@0
      <<"b", "@", "s">>,                \* b@s
      <<"f", "@", "1">>,                \* f@1
      <<"g", "@", "2">>,                \* g@2
      <<"c">>,                          \* c
      <<"a", "@", "-", "1">>,           \* a@-1
      <<"a", "@", "x">>,                \* a@x
      <<"a", "@", "b", "@", "0">>,      \* a@b@0
      Keyval \o <<"@", "2">>,           \* keyval@2
      <<"a", ",", "@", "0">> }          \* a,@0

TreeInputs == SeqsUpTo(TreeAtoms, MaxAtoms)

InitTree ==
    /\ tt \in {TreeInit(lin) : lin \in TreeInputs}
    /\ ca = Idle
    /\ ln = Idle
    /\ rt = Idle
    /\ ip = Idle
    /\ ck = Idle
    /\ fn = Idle

\* one iteration of the for loop of transform_if_tree
TreeIter ==
    /\ tt.pc = "loop"
    /\ tt.i < Len(tt.lin)
    /\ tt' = TreeBody(tt)
    /\ UNCHANGED <<ca, ln, rt, ip, ck, fn>>

\* the for loop is exhausted and the function returns
TreeExit ==
    /\ tt.pc = "loop"
    /\ tt.i = Len(tt.lin)
    /\ tt' = TreeReturn(tt)
    /\ UNCHANGED <<ca, ln, rt, ip, ck, fn>>

NextTree == TreeIter \/ TreeExit

SpecTree == InitTree /\ [][NextTree]_vars

\* atoms for the quoting of leaves: keyval and findkey as functors, as
\* leaves and as string leaves, and leaves that may follow them
QuoteAtoms ==
    { <<"f", "@", "2">>,                \* f@2
      Keyval \o <<"@", "1">>,           \* keyval@1
      Keyval \o <<"@", "s">>,           \* keyval@s
      Keyval \o <<"@", "0">>,           \* keyval@0
      Findkey \o <<"@", "0">>,          \* findkey@0
      <<"x", "@", "0">>,                \* x@0
      <<"x", "€", "y", "@", "s">> }     \* x€y@s

QuoteInputs == SeqsUpTo(QuoteAtoms, MaxAtoms)

InitQuote ==
    /\ tt \in {TreeInit(lin) : lin \in QuoteInputs}
    /\ ca = Idle
    /\ ln = Idle
    /\ rt = Idle
    /\ ip = Idle
    /\ ck = Idle
    /\ fn = Idle

\* transform_if_tree on the atoms of QuoteAtoms
SpecQuote == InitQuote /\ [][NextTree]_vars

(***************************************************************************)
(* MRL.delete_first_n_occurences (mrl.py 41-58).                           *)
(***************************************************************************)
\* offsets at which re.search(r'\b<element>\b', s) can match
WordMatches(s, element) ==
    {pos \in 0..(Len(s) - Len(element)) :
        /\ StartsWithAt(s, pos, element)
        /\ WordBoundary(s, pos)
        /\ WordBoundary(s, pos + Len(element))}

RECURSIVE delete_first_n_occurences(_, _, _)
\* n times: cut the text up to the end of the first match; when there is no
\* match, m is None, m.end() raises and the except clause returns ""
delete_first_n_occurences(string_to_shorten, element, n) ==
    IF n > 0 THEN
        LET found == WordMatches(string_to_shorten, element) IN
        IF found = {} THEN <<>>
        ELSE LET pos == CHOOSE x \in found : \A y \in found : x <= y IN
             delete_first_n_occurences(
                 SubSeq(string_to_shorten, pos + Len(element) + 1,
                        Len(string_to_shorten)),
                 element, n - 1)
    ELSE string_to_shorten

(***************************************************************************)
(* NLmaps.linearise (mrl.py 126-151).                                      *)
(***************************************************************************)
AtS == <<"@", "s">>

\* just_words (mrl.py 135-140)
JustWords(mrl) ==
    Strip(CollapseWhitespace(
        ReplaceChar(ReplaceChar(ReplaceChar(mrl, "(", " "), ")", " "),
                    ",", " ")))

\* the locals before the loop (mrl.py 135-143); words is
\* just_words.split(" "), i the number of elements the loop has taken,
\* seen_string_x_times the defaultdict as a function on the keys it holds
LinInit(mrl) ==
    [mrl |-> mrl, words |-> SplitOn(JustWords(mrl), " "), i |-> 0,
     seen_string_x_times |-> <<>>, lin |-> <<>>, pc |-> "loop", ret |-> <<>>]

\* seen_string_x_times[element] += 1 on a defaultdict(lambda: 0)
Seen(d, element) ==
    IF element \in DOMAIN d THEN [d EXCEPT ![element] = @ + 1]
    ELSE [x \in DOMAIN d \cup {element} |->
              IF x = element THEN 1 ELSE d[x]]

\* the atom appended for an element that is not tagged @s (mrl.py 148-150)
LinAtom(mrl, element, n) ==
    element \o <<"@">>
        \o IntToStr(count_arguments(
               delete_first_n_occurences(mrl, element, n)))

\* one iteration of the for loop (mrl.py 143-150)
LinBody(st) ==
    LET element == st.words[st.i + 1]
        seen == Seen(st.seen_string_x_times, element) IN
    [st EXCEPT !.seen_string_x_times = seen,
               !.i = @ + 1,
               !.lin = Append(@, IF EndsWith(element, AtS) THEN element
                                 ELSE LinAtom(st.mrl, element, seen[element]))]

\* return ' '.join(lin) (mrl.py 151)
LinReturn(st) == [st EXCEPT !.pc = "returned", !.ret = JoinWith(st.lin, <<" ">>)]

RECURSIVE LinRun(_)
LinRun(st) == IF st.i < Len(st.words) THEN LinRun(LinBody(st)) ELSE st

\* linearise(mrl): the returned string
linearise(mrl) == LinReturn(LinRun(LinInit(mrl))).ret

(***************************************************************************)
(* NLmaps.preprocess_mrl (mrl.py 101-124).                                 *)
(***************************************************************************)
SAVECOMMA == <<"S", "A", "V", "E", "C", "O", "M", "M", "A">>
BRACKETOPEN == <<"B", "R", "A", "C", "K", "E", "T", "O", "P", "E", "N">>
BRACKETCLOSE == <<"B", "R", "A", "C", "K", "E", "T", "C", "L", "O", "S", "E">>
SAVEAPO == <<"S", "A", "V", "E", "A", "P", "O">>

\* mrl.py 108: (','[^\(\)]*?),([^\(\)]*?')  ->  \g<1>SAVECOMMA\g<2>
SubSaveComma(mrl) ==
    Sub(<<Open(1), Lit("'"), Lit(","), Lit("'"), Lazy("notparen"), Close(1),
          Lit(","), Open(2), Lazy("notparen"), Lit("'"), Close(2)>>,
        <<Grp(1)>> \o Lits(SAVECOMMA) \o <<Grp(2)>>, mrl)

\* mrl.py 110: ,' *([^\(\)]*?)\((.*?) *'\)  ->  ,'\g<1>BRACKETOPEN\g<2>')
SubBracketOpen(mrl) ==
    Sub(<<Lit(","), Lit("'"), Greedy("space"), Open(1), Lazy("notparen"),
          Close(1), Lit("("), Open(2), Lazy("any"), Close(2),
          Greedy("space"), Lit("'"), Lit(")")>>,
        <<Lit(","), Lit("'"), Grp(1)>> \o Lits(BRACKETOPEN)
            \o <<Grp(2), Lit("'"), Lit(")")>>, mrl)

\* mrl.py 111: ,' *([^\(\)]*?)\)([^\(\)]*?) *'\)
\*                                         ->  ,'\g<1>BRACKETCLOSE\g<2>')
SubBracketClose(mrl) ==
    Sub(<<Lit(","), Lit("'"), Greedy("space"), Open(1), Lazy("notparen"),
          Close(1), Lit(")"), Open(2), Lazy("notparen"), Close(2),
          Greedy("space"), Lit("'"), Lit(")")>>,
        <<Lit(","), Lit("'"), Grp(1)>> \o Lits(BRACKETCLOSE)
            \o <<Grp(2), Lit("'"), Lit(")")>>, mrl)

RECURSIVE SaveApoFrom(_, _)
SaveApoFrom(mrl, pos) ==
    IF pos >= Len(mrl) THEN <<>>
    ELSE (IF /\ mrl[pos + 1] = "'"
             /\ pos > 0 /\ mrl[pos] \notin {",", "(", ")"}
             /\ pos + 1 < Len(mrl) /\ mrl[pos + 2] \notin {",", "(", ")"}
          THEN SAVEAPO ELSE <<mrl[pos + 1]>>)
         \o SaveApoFrom(mrl, pos + 1)

\* mrl.py 113: (?<=([^,\(\)]))'(?=([^,\(\)]))  ->  SAVEAPO ; the look-behind
\* and the look-ahead read the text as it was before the substitution
SubSaveApo(mrl) == SaveApoFrom(mrl, 0)

\* mrl.py 114: and\(' *([^\(\)]+?) *',' *([^\(\)]+?) *'\)
\*                                         ->  and(\g<1>@s','\g<2>@s)
SubAnd(mrl) ==
    Sub(<<Lit("a"), Lit("n"), Lit("d"), Lit("("), Lit("'"), Greedy("space"),
          Open(1), One("notparen"), Lazy("notparen"), Close(1),
          Greedy("space"), Lit("'"), Lit(","), Lit("'"), Greedy("space"),
          Open(2), One("notparen"), Lazy("notparen"), Close(2),
          Greedy("space"), Lit("'"), Lit(")")>>,
        <<Lit("a"), Lit("n"), Lit("d"), Lit("("), Grp(1), Lit("@"), Lit("s"),
          Lit("'"), Lit(","), Lit("'"), Grp(2), Lit("@"), Lit("s"),
          Lit(")")>>, mrl)

\* mrl.py 116: \(' *([^\(\)]+?) *'\)  ->  (\g<1>@s)
SubStringLeaf(mrl) ==
    Sub(<<Lit("("), Lit("'"), Greedy("space"), Open(1), One("notparen"),
          Lazy("notparen"), Close(1), Greedy("space"), Lit("'"), Lit(")")>>,
        <<Lit("("), Grp(1), Lit("@"), Lit("s"), Lit(")")>>, mrl)

\* mrl.py 118: ([,\)\(])or\(([^\(\)]+?)','([^\(\)]+?)@s\)
\*                                         ->  \g<1>or(\g<2>@s','\g<3>@s)
SubOr(mrl) ==
    Sub(<<Open(1), One("sep"), Close(1), Lit("o"), Lit("r"), Lit("("),
          Open(2), One("notparen"), Lazy("notparen"), Close(2),
          Lit("'"), Lit(","), Lit("'"),
          Open(3), One("notparen"), Lazy("notparen"), Close(3),
          Lit("@"), Lit("s"), Lit(")")>>,
        <<Grp(1), Lit("o"), Lit("r"), Lit("("), Grp(2), Lit("@"), Lit("s"),
          Lit("'"), Lit(","), Lit("'"), Grp(3), Lit("@"), Lit("s"),
          Lit(")")>>, mrl)

\* the sentinel encoding (mrl.py 108-113)
EncodeSentinels(mrl) ==
    SubSaveApo(ReplaceChar(
        SubBracketClose(SubBracketOpen(SubSaveComma(mrl))), " ", "€"))

\* the tagging of string leaves and the removal of the quotes
\* (mrl.py 114-122)
TagStringLeaves(mrl) ==
    Strip(ReplaceAll(
        CollapseWhitespace(SubOr(SubStringLeaf(SubAnd(mrl)))),
        <<"'">>, <<>>))

\* preprocess_mrl(mrl): the returned linear form
preprocess_mrl(mrl) == linearise(TagStringLeaves(EncodeSentinels(mrl)))

(***************************************************************************)
(* NLmaps.functionalise (mrl.py 294-326), called with the linear form      *)
(* alone: non_stemmed, stemmed and cfg are None, insert_missing_at False.  *)
(***************************************************************************)
\* mrl.py 303-305
SplitLin(lin) ==
    SplitOn(
        ReplaceAll(ReplaceAll(lin, <<"<", "t", "o", "p", "x", ">">>, <<>>),
                   <<"<", "/", "t", "o", "p", "x", ">">>, <<"@", "0">>),
        " ")

\* mrl.py 322-325
DecodeSentinels(mrl) ==
    ReplaceAll(ReplaceAll(ReplaceAll(ReplaceAll(mrl,
        SAVEAPO, <<"'">>), BRACKETOPEN, <<"(">>), BRACKETCLOSE, <<")">>),
        SAVECOMMA, <<",">>)

\* functionalise(lin): [pc |-> "returned", ret |-> the string], or
\* [pc |-> "raised"] when transform_if_tree raised
functionalise(lin) ==
    LET st == transform_if_tree(SplitLin(lin)) IN
    IF st.pc = "raised" THEN [pc |-> "raised", ret |-> <<>>]
    ELSE IF st.ret = <<>> THEN [pc |-> "returned", ret |-> <<>>]
    ELSE [pc |-> "returned", ret |-> DecodeSentinels(st.ret)]

(***************************************************************************)
(* Queries the pipeline is run on: the texts of the trees of a bounded     *)
(* number of nodes over a set of functors and a set of leaves.             *)
(***************************************************************************)
RECURSIVE TreesOfSize(_, _, _), Forests(_, _, _)
\* the trees of exactly n nodes: functors inside, leaves at the ends
TreesOfSize(funs, leaves, n) ==
    IF n = 1 THEN {[tok |-> x, kids |-> <<>>] : x \in leaves}
    ELSE {[tok |-> f, kids |-> ks] :
              f \in funs, ks \in Forests(funs, leaves, n - 1)}

\* the non-empty sequences of trees of n nodes in all
Forests(funs, leaves, n) ==
    UNION {{<<first>> \o rest :
                first \in TreesOfSize(funs, leaves, m),
                rest \in IF m = n THEN {<<>>}
                         ELSE Forests(funs, leaves, n - m)} : m \in 1..n}

\* the trees of at most n nodes
Trees(funs, leaves, n) == UNION {TreesOfSize(funs, leaves, m) : m \in 1..n}

RECURSIVE Render(_)
\* the surface text of a tree
Render(tree) ==
    IF tree.kids = <<>> THEN tree.tok
    ELSE tree.tok \o <<"(">>
            \o JoinWith([j \in 1..Len(tree.kids) |-> Render(tree.kids[j])],
                        <<",">>)
            \o <<")">>

\* escaped queries for linearise: the token a, the token a:b of which a is
\* a word-bounded part, and the tagged leaf a@s
LinInputs ==
    {Render(tree) : tree \in Trees({<<"a">>, <<"a", ":", "b">>},
                                   {<<"a">>, <<"a", ":", "b">>,
                                    <<"a", "@", "s">>}, LinNodes)}

\* leaves of the surface queries: a bare identifier, and quoted strings
\* that are plain or hold a space, one comma, two commas, an apostrophe,
\* ( or )
RoundLeaves ==
    { <<"x">>,
      <<"'", "n", "'">>,
      <<"'", "a", " ", "b", "'">>,
      <<"'", "a", ",", "b", "'">>,
      <<"'", "a", ",", "b", ",", "c", "'">>,
      <<"'", "a", "'", "b", "'">>,
      <<"'", "a", "(", "b", "'">>,
      <<"'", "a", ")", "b", "'">> }

\* surface queries for the round trip: a functor at the root
RoundInputs ==
    {Render(tree) : tree \in {x \in Trees({<<"f">>, Keyval}, RoundLeaves,
                                          RoundNodes) : x.kids # <<>>}}

(***************************************************************************)
(* Specification of linearise: one element of just_words per step.         *)
(***************************************************************************)
InitLin ==
    /\ ln \in {LinInit(mrl) : mrl \in LinInputs}
    /\ ca = Idle
    /\ tt = Idle
    /\ rt = Idle
    /\ ip = Idle
    /\ ck = Idle
    /\ fn = Idle

\* one iteration of the for loop of linearise
LinIter ==
    /\ ln.pc = "loop"
    /\ ln.i < Len(ln.words)
    /\ ln' = LinBody(ln)
    /\ UNCHANGED <<ca, tt, rt, ip, ck, fn>>

\* the for loop is exhausted and the function returns
LinExit ==
    /\ ln.pc = "loop"
    /\ ln.i = Len(ln.words)
    /\ ln' = LinReturn(ln)
    /\ UNCHANGED <<ca, tt, rt, ip, ck, fn>>

NextLin == LinIter \/ LinExit

SpecLin == InitLin /\ [][NextLin]_vars

(***************************************************************************)
(* Specification of the round trip functionalise(preprocess_mrl(q)) as     *)
(* linearise.py and the tests run it: the statements of preprocess_mrl     *)
(* (mrl.py 108-124), then those of functionalise (mrl.py 303-326).         *)
(***************************************************************************)
InitRound ==
    /\ rt \in {[q |-> q, mrl |-> q, lin |-> <<>>, atoms |-> <<>>,
                pc |-> "preprocess", ret |-> <<>>] : q \in RoundInputs}
    /\ ca = Idle
    /\ tt = Idle
    /\ ln = Idle
    /\ ip = Idle
    /\ ck = Idle
    /\ fn = Idle

\* preprocess_mrl, the sentinels (mrl.py 108-113)
RoundEncode ==
    /\ rt.pc = "preprocess"
    /\ rt' = [rt EXCEPT !.mrl = EncodeSentinels(@), !.pc = "encoded"]
    /\ UNCHANGED <<ca, tt, ln, ip, ck, fn>>

\* preprocess_mrl, the @s tags and the quotes (mrl.py 114-122)
RoundTag ==
    /\ rt.pc = "encoded"
    /\ rt' = [rt EXCEPT !.mrl = TagStringLeaves(@), !.pc = "tagged"]
    /\ UNCHANGED <<ca, tt, ln, ip, ck, fn>>

\* preprocess_mrl returns the linear form (mrl.py 123-124)
RoundLinearise ==
    /\ rt.pc = "tagged"
    /\ rt' = [rt EXCEPT !.lin = linearise(rt.mrl), !.pc = "functionalise"]
    /\ UNCHANGED <<ca, tt, ln, ip, ck, fn>>

\* functionalise splits the linear form into atoms (mrl.py 303-305)
RoundSplit ==
    /\ rt.pc = "functionalise"
    /\ rt' = [rt EXCEPT !.atoms = SplitLin(rt.lin), !.pc = "split"]
    /\ UNCHANGED <<ca, tt, ln, ip, ck, fn>>

\* functionalise calls transform_if_tree (mrl.py 313-315): the exception
\* of the callee propagates, an empty result is returned at once
RoundTree ==
    /\ rt.pc = "split"
    /\ LET st == transform_if_tree(rt.atoms) IN
       rt' = IF st.pc = "raised" THEN [rt EXCEPT !.pc = "raised"]
             ELSE IF st.ret = <<>>
                  THEN [rt EXCEPT !.mrl = <<>>, !.ret = <<>>, !.pc = "returned"]
                  ELSE [rt EXCEPT !.mrl = st.ret, !.pc = "tree"]
    /\ UNCHANGED <<ca, tt, ln, ip, ck, fn>>

\* functionalise decodes the sentinels and returns (mrl.py 322-326)
RoundDecode ==
    /\ rt.pc = "tree"
    /\ rt' = [rt EXCEPT !.ret = DecodeSentinels(rt.mrl), !.pc = "returned"]
    /\ UNCHANGED <<ca, tt, ln, ip, ck, fn>>

NextRound ==
    \/ RoundEncode
    \/ RoundTag
    \/ RoundLinearise
    \/ RoundSplit
    \/ RoundTree
    \/ RoundDecode

SpecRound == InitRound /\ [][NextRound]_vars

(***************************************************************************)
(* NLmaps.insert_pass_through_words (mrl.py 153-176).                      *)
(***************************************************************************)
\* the frame at the call: arg_* keep the three arguments as they were
\* passed, lin is the list the loop assigns into
PassInit(lin, non_stemmed, stemmed) ==
    [arg_lin |-> lin, arg_non_stemmed |-> non_stemmed,
     arg_stemmed |-> stemmed,
     lin |-> lin, non_stemmed |-> <<>>, stemmed |-> <<>>,
     i |-> 0, j |-> 0, element |-> <<>>, word_pos |-> -1,
     pc |-> "entry", ret |-> <<>>]

\* the two splits and the comparison of the lengths (mrl.py 163-166)
PassSplit(st) ==
    LET non_stemmed == SplitOn(st.arg_non_stemmed, " ")
        stemmed == SplitOn(st.arg_stemmed, " ") IN
    IF Len(non_stemmed) # Len(stemmed) THEN
        [st EXCEPT !.non_stemmed = non_stemmed, !.stemmed = stemmed,
                   !.pc = "returned", !.ret = st.lin]
    ELSE
        [st EXCEPT !.non_stemmed = non_stemmed, !.stemmed = stemmed,
                   !.pc = "outer"]

\* the head of one iteration of the outer loop (mrl.py 167-169): an atom
\* that holds @ is passed over
PassOuterHead(st) ==
    LET element == st.lin[st.i + 1] IN
    IF ~Contains(element, "@") THEN
        [st EXCEPT !.element = element, !.word_pos = -1, !.j = 0,
                   !.pc = "inner"]
    ELSE
        [st EXCEPT !.element = element, !.word_pos = -1, !.i = @ + 1]

\* mutant: an atom that was replaced once is not replaced again
PassInnerFirstMatch(st) ==
    LET word_pos == IF st.element = st.stemmed[st.j + 1] THEN st.j
                    ELSE st.word_pos IN
    IF word_pos # -1 /\ st.lin[st.i + 1] = st.element THEN
        [st EXCEPT !.lin[st.i + 1] = st.non_stemmed[word_pos + 1] \o AtS,
                   !.word_pos = -1, !.j = @ + 1]
    ELSE
        [st EXCEPT !.word_pos = -1, !.j = @ + 1]

\* one iteration of the inner loop (mrl.py 170-175); the list positions of
\* the code count from 0
PassInner(st) ==
    LET word_pos == IF st.element = st.stemmed[st.j + 1] THEN st.j
                    ELSE st.word_pos IN
    IF word_pos # -1 THEN
        [st EXCEPT !.lin[st.i + 1] = st.non_stemmed[word_pos + 1] \o AtS,
                   !.word_pos = -1, !.j = @ + 1]
    ELSE
        [st EXCEPT !.word_pos = word_pos, !.j = @ + 1]

\* the inner loop is exhausted: the outer loop takes the next atom
PassInnerEnd(st) == [st EXCEPT !.i = @ + 1, !.pc = "outer"]

\* return lin (mrl.py 176)
PassReturn(st) == [st EXCEPT !.pc = "returned", !.ret = st.lin]

\* the atoms of lin: two bare words and an atom with a suffix that occurs
\* in the stemmed stream as well
PassLinAtoms == { <<"p">>, <<"q">>, <<"a", "@", "0">> }

PassStemmedWords == { <<"p">>, <<"a", "@", "0">> }

PassNonStemmedWords == { <<"P">>, <<"Q">> }

\* the texts of a stream: the empty text and the words joined by spaces
PassStreams(words) ==
    {JoinWith(ws, <<" ">>) : ws \in SeqsUpTo(words, PassWords)}

InitPass ==
    /\ ip \in {PassInit(lin, non_stemmed, stemmed) :
                   lin \in SeqsUpTo(PassLinAtoms, PassAtoms),
                   non_stemmed \in PassStreams(PassNonStemmedWords),
                   stemmed \in PassStreams(PassStemmedWords)}
    /\ ca = Idle
    /\ tt = Idle
    /\ ln = Idle
    /\ rt = Idle
    /\ ck = Idle
    /\ fn = Idle

\* the streams are split and compared
PassEntry ==
    /\ ip.pc = "entry"
    /\ ip' = PassSplit(ip)
    /\ UNCHANGED <<ca, tt, ln, rt, ck, fn>>

\* the outer loop takes an atom
PassOuter ==
    /\ ip.pc = "outer"
    /\ ip.i < Len(ip.lin)
    /\ ip' = PassOuterHead(ip)
    /\ UNCHANGED <<ca, tt, ln, rt, ck, fn>>

\* the inner loop takes a stemmed token
PassInnerIter ==
    /\ ip.pc = "inner"
    /\ ip.j < Len(ip.stemmed)
    /\ ip' = PassInner(ip)
    /\ UNCHANGED <<ca, tt, ln, rt, ck, fn>>

\* the inner loop ends
PassInnerExit ==
    /\ ip.pc = "inner"
    /\ ip.j = Len(ip.stemmed)
    /\ ip' = PassInnerEnd(ip)
    /\ UNCHANGED <<ca, tt, ln, rt, ck, fn>>

\* the outer loop ends and the function returns
PassExit ==
    /\ ip.pc = "outer"
    /\ ip.i = Len(ip.lin)
    /\ ip' = PassReturn(ip)
    /\ UNCHANGED <<ca, tt, ln, rt, ck, fn>>

NextPass ==
    \/ PassEntry
    \/ PassOuter
    \/ PassInnerIter
    \/ PassInnerExit
    \/ PassExit

SpecPass == InitPass /\ [][NextPass]_vars

(***************************************************************************)
(* NLmaps.check_MRL_tree (mrl.py 226-281) and the scratch directory it     *)
(* makes.  The decoder is opaque: what it writes to standard error is an   *)
(* input of the model, and so is, for every statement inside the try       *)
(* block, whether the statement raises.  The text of the rewritten query   *)
(* (mrl.py 237-256) goes to the decoder only and is not kept.              *)
(***************************************************************************)
\* the statements of the try block, in order
CheckStatements ==
    << "rewrite",           \* mrl.py 237-256
       "open_ini",          \* 257
       "print_ini",         \* 258-262
       "close_ini",         \* 263
       "open_sent_w",       \* 264-266
       "print_sent",        \* 267
       "close_sent",        \* 268
       "open_sent_r",       \* 269
       "open_null",         \* 270
       "popen",             \* 271
       "read",              \* 272
       "close_infile",      \* 273
       "close_nullfile",    \* 274
       "rmtree",            \* 275
       "verdict" >>         \* 276-278

NoParse == <<"N", "O", " ", "P", "A", "R", "S", "E">>

\* t in s for texts
ContainsText(s, t) == \E pos \in 0..Len(s) : StartsWithAt(s, pos, t)

\* what the decoder may write to standard error
CheckLogs ==
    { <<>>,
      NoParse,
      <<"x", " ">> \o NoParse \o <<" ", "y">>,
      <<"N", "O", " ", "P", "A", "R", "S">>,
      <<"o", "k">> }

\* the frame at the call; cdec tells whether self.cdec is set.  temp_dir
\* is the state of the scratch directory on disk, files the files in it,
\* open the file objects that are open, failed the statements that raised.
CheckInit(cdec) ==
    [cdec |-> cdec, pc |-> "entry", step |-> 1,
     temp_dir |-> "none", files |-> {}, open |-> {},
     cfg_log |-> <<>>, failed |-> <<>>, ret |-> FALSE]

\* mrl.py 234: without a decoder the call returns False at once
CheckNoCdec(st) == [st EXCEPT !.pc = "returned", !.ret = FALSE]

\* mrl.py 235: tempfile.mkdtemp made the directory
CheckMkdtemp(st) == [st EXCEPT !.temp_dir = "present", !.pc = "try"]

\* mrl.py 235: tempfile.mkdtemp raised, outside the try block
CheckMkdtempRaises(st) ==
    [st EXCEPT !.failed = Append(@, "mkdtemp"), !.pc = "raised"]

\* mutant: the directory is left on disk
RemoveTreeNot(st) == st

\* shutil.rmtree(temp_dir) went through
RemoveTree(st) == [st EXCEPT !.temp_dir = "absent", !.files = {}]

\* a statement of the try block completed (mrl.py 237-275); log is what
\* p.stderr.read() returned
CheckStatement(st, log) ==
    LET name == CheckStatements[st.step]
        after ==
            CASE name = "open_ini" ->
                    [st EXCEPT !.files = @ \cup {"cdec_validate.ini"},
                               !.open = @ \cup {"ini_file"}]
              [] name = "close_ini" ->
                    [st EXCEPT !.open = @ \ {"ini_file"}]
              [] name = "open_sent_w" ->
                    [st EXCEPT !.files = @ \cup {"sent.tmp"},
                               !.open = @ \cup {"infile"}]
              [] name = "close_sent" ->
                    [st EXCEPT !.open = @ \ {"infile"}]
              [] name = "open_sent_r" ->
                    [st EXCEPT !.open = @ \cup {"infile"}]
              [] name = "open_null" ->
                    [st EXCEPT !.open = @ \cup {"nullfile"}]
              [] name = "read" ->
                    [st EXCEPT !.cfg_log = log]
              [] name = "close_infile" ->
                    [st EXCEPT !.open = @ \ {"infile"}]
              [] name = "close_nullfile" ->
                    [st EXCEPT !.open = @ \ {"nullfile"}]
              [] name = "rmtree" -> RemoveTree(st)
              [] OTHER -> st
    IN [after EXCEPT !.step = @ + 1]

\* a statement of the try block raised: control goes to the handler.  A
\* failed rmtree leaves the directory with the files in left.
CheckStatementRaises(st, left) ==
    [st EXCEPT !.failed = Append(@, CheckStatements[st.step]),
               !.files = left,
               !.pc = "except"]

\* mrl.py 276-278
CheckVerdict(st) ==
    [st EXCEPT !.pc = "returned", !.ret = ~ContainsText(st.cfg_log, NoParse)]

\* the handler removed the directory, and the call returns False
\* (mrl.py 279-281)
CheckExcept(st) == [RemoveTree(st) EXCEPT !.pc = "returned", !.ret = FALSE]

\* the rmtree of the handler raised (mrl.py 280): the exception leaves
\* the call
CheckExceptRaises(st, left) ==
    [st EXCEPT !.failed = Append(@, "rmtree_handler"),
               !.files = left,
               !.pc = "raised"]

InitCheck ==
    /\ ck \in {CheckInit(cdec) : cdec \in {"none", "set"}}
    /\ ca = Idle
    /\ tt = Idle
    /\ ln = Idle
    /\ rt = Idle
    /\ ip = Idle
    /\ fn = Idle

\* self.cdec is None
CheckEntryNoCdec ==
    /\ ck.pc = "entry"
    /\ ck.cdec = "none"
    /\ ck' = CheckNoCdec(ck)
    /\ UNCHANGED <<ca, tt, ln, rt, ip, fn>>

\* the scratch directory is made
CheckEntryMkdtemp ==
    /\ ck.pc = "entry"
    /\ ck.cdec = "set"
    /\ ck' = CheckMkdtemp(ck)
    /\ UNCHANGED <<ca, tt, ln, rt, ip, fn>>

\* the scratch directory cannot be made
CheckEntryMkdtempRaises ==
    /\ ck.pc = "entry"
    /\ ck.cdec = "set"
    /\ ck' = CheckMkdtempRaises(ck)
    /\ UNCHANGED <<ca, tt, ln, rt, ip, fn>>

\* the next statement of the try block completes
CheckStep ==
    /\ ck.pc = "try"
    /\ CheckStatements[ck.step] # "verdict"
    /\ \E log \in IF CheckStatements[ck.step] = "read" THEN CheckLogs
                  ELSE {ck.cfg_log} :
          ck' = CheckStatement(ck, log)
    /\ UNCHANGED <<ca, tt, ln, rt, ip, fn>>

\* the next statement of the try block raises
CheckStepRaises ==
    /\ ck.pc = "try"
    /\ CheckStatements[ck.step] # "verdict"
    /\ \E left \in IF CheckStatements[ck.step] = "rmtree"
                   THEN SUBSET ck.files ELSE {ck.files} :
          ck' = CheckStatementRaises(ck, left)
    /\ UNCHANGED <<ca, tt, ln, rt, ip, fn>>

\* the directory is gone and the log is looked at
CheckReturn ==
    /\ ck.pc = "try"
    /\ CheckStatements[ck.step] = "verdict"
    /\ ck' = CheckVerdict(ck)
    /\ UNCHANGED <<ca, tt, ln, rt, ip, fn>>

\* the handler removes the directory; an exception of rmtree in the try
\* block left the directory on disk for it
CheckHandler ==
    /\ ck.pc = "except"
    /\ ck' = CheckExcept(ck)
    /\ UNCHANGED <<ca, tt, ln, rt, ip, fn>>

\* the handler cannot remove the directory
CheckHandlerRaises ==
    /\ ck.pc = "except"
    /\ \E left \in SUBSET ck.files : ck' = CheckExceptRaises(ck, left)
    /\ UNCHANGED <<ca, tt, ln, rt, ip, fn>>

NextCheck ==
    \/ CheckEntryNoCdec
    \/ CheckEntryMkdtemp
    \/ CheckEntryMkdtempRaises
    \/ CheckStep
    \/ CheckStepRaises
    \/ CheckReturn
    \/ CheckHandler
    \/ CheckHandlerRaises

SpecCheck == InitCheck /\ [][NextCheck]_vars

(***************************************************************************)
(* NLmaps.add_missing_at (mrl.py 283-292) and NLmaps.functionalise         *)
(* (mrl.py 294-326) called with insert_missing_at given; non_stemmed,      *)
(* stemmed and cfg are None.                                               *)
(***************************************************************************)
\* element.endswith("@", -2, -1): the slice element[-2:-1], which is the
\* last character but one, or empty for a shorter element, ends with @
SemiFinalAt(element) ==
    Len(element) >= 2 /\ element[Len(element) - 1] = "@"

\* one iteration of the loop of add_missing_at (mrl.py 289-291)
AddBody(st) ==
    IF ~SemiFinalAt(st.lin[st.i + 1]) THEN
        [st EXCEPT !.lin[st.i + 1] = @ \o AtS, !.i = @ + 1]
    ELSE
        [st EXCEPT !.i = @ + 1]

\* the frame of functionalise at the call
FunInit(lin, insert_missing_at) ==
    [arg_lin |-> lin, insert_missing_at |-> insert_missing_at,
     lin |-> <<>>, i |-> 0, mrl |-> <<>>, pc |-> "entry", ret |-> <<>>]

\* mrl.py 303-311: the split, and the call of add_missing_at if asked for
FunSplit(st) ==
    [st EXCEPT !.lin = SplitLin(st.arg_lin),
               !.pc = IF st.insert_missing_at THEN "add" ELSE "tree"]

\* add_missing_at returns lin (mrl.py 292, 311)
FunAdded(st) == [st EXCEPT !.pc = "tree"]

\* mrl.py 313-315: the exception of transform_if_tree leaves the call, an
\* empty result is returned at once
FunTree(st) ==
    LET t == transform_if_tree(st.lin) IN
    IF t.pc = "raised" THEN [st EXCEPT !.pc = "raised"]
    ELSE IF t.ret = <<>> THEN [st EXCEPT !.pc = "returned", !.ret = <<>>]
    ELSE [st EXCEPT !.mrl = t.ret, !.pc = "decode"]

\* mrl.py 322-326
FunDecode(st) ==
    [st EXCEPT !.pc = "returned", !.ret = DecodeSentinels(st.mrl)]

\* the atoms of the linear forms: well-formed ones with arities of one and
\* of two digits, a string leaf, and atoms without a suffix
FunAtoms ==
    { <<"f", "@", "1">>,
      <<"a", "@", "0">>,
      <<"b", "@", "s">>,
      <<"a", "@", "1", "0">>,
      <<"c">>,
      <<"d", "e">> }

FunInputs == {JoinWith(lin, <<" ">>) : lin \in SeqsUpTo(FunAtoms, FunLen)}

InitFun ==
    /\ fn \in {FunInit(lin, flag) : lin \in FunInputs, flag \in BOOLEAN}
    /\ ca = Idle
    /\ tt = Idle
    /\ ln = Idle
    /\ rt = Idle
    /\ ip = Idle
    /\ ck = Idle

\* the linear form is split
FunEntry ==
    /\ fn.pc = "entry"
    /\ fn' = FunSplit(fn)
    /\ UNCHANGED <<ca, tt, ln, rt, ip, ck>>

\* add_missing_at takes an element
FunAddIter ==
    /\ fn.pc = "add"
    /\ fn.i < Len(fn.lin)
    /\ fn' = AddBody(fn)
    /\ UNCHANGED <<ca, tt, ln, rt, ip, ck>>

\* add_missing_at returns
FunAddExit ==
    /\ fn.pc = "add"
    /\ fn.i = Len(fn.lin)
    /\ fn' = FunAdded(fn)
    /\ UNCHANGED <<ca, tt, ln, rt, ip, ck>>

\* the tree is rebuilt
FunTransform ==
    /\ fn.pc = "tree"
    /\ fn' = FunTree(fn)
    /\ UNCHANGED <<ca, tt, ln, rt, ip, ck>>

\* the sentinels are decoded and the query is returned
FunReturn ==
    /\ fn.pc = "decode"
    /\ fn' = FunDecode(fn)
    /\ UNCHANGED <<ca, tt, ln, rt, ip, ck>>

NextFun ==
    \/ FunEntry
    \/ FunAddIter
    \/ FunAddExit
    \/ FunTransform
    \/ FunReturn

SpecFun == InitFun /\ [][NextFun]_vars

(***************************************************************************)
(* Reference notions for the claims about transform_if_tree, stated on     *)
(* the atoms alone (no stack).                                             *)
(***************************************************************************)
\* the text after the last @ of an atom that holds one
LastSuffix(atom) ==
    LET pieces == SplitOn(atom, "@") IN pieces[Len(pieces)]

NonNegDecimal(s) == s # <<>> /\ \A k \in 1..Len(s) : s[k] \in Digits

\* an atom body@suffix of a Linearised Form: one @, and a suffix that is s
\* or a non-negative decimal integer
WellFormedAtom(atom) ==
    /\ Len(SplitOn(atom, "@")) = 2
    /\ (LastSuffix(atom) = <<"s">> \/ NonNegDecimal(LastSuffix(atom)))

\* an atom with no @, or whose suffix is neither s nor a non-negative
\* decimal integer
MalformedAtom(atom) ==
    \/ ~Contains(atom, "@")
    \/ ~(LastSuffix(atom) = <<"s">> \/ NonNegDecimal(LastSuffix(atom)))

AllWellFormed(lin) == \A k \in 1..Len(lin) : WellFormedAtom(lin[k])

\* the arity a well-formed atom declares
DeclArity(atom) ==
    IF LastSuffix(atom) = <<"s">> THEN 0 ELSE DigitsValue(LastSuffix(atom))

RECURSIVE OpenSlots(_, _, _)
\* the slots still to be filled in the subtree that starts at atom p, after
\* the atoms p..q: 1 + the sum over p..q of (arity - 1)
OpenSlots(lin, p, q) ==
    IF q < p THEN 1 ELSE OpenSlots(lin, p, q - 1) + DeclArity(lin[q]) - 1

\* some atom declares an arity > 0 and its subtree is not complete when
\* the sequence ends
UnderSupplied(lin) ==
    \E p \in 1..Len(lin) :
        /\ DeclArity(lin[p]) > 0
        /\ \A q \in p..Len(lin) : OpenSlots(lin, p, q) > 0

\* atoms follow after the subtree of the first atom is complete
Surplus(lin) == \E q \in 1..(Len(lin) - 1) : OpenSlots(lin, 1, q) = 0

\* the pre-order arities form exactly one rooted tree
LegalTree(lin) ==
    /\ Len(lin) > 0
    /\ OpenSlots(lin, 1, Len(lin)) = 0
    /\ \A q \in 1..(Len(lin) - 1) : OpenSlots(lin, 1, q) > 0

\* C2: for every linear form in which some atom declares an arity k > 0 and
\* fewer than k complete subtrees follow it before the sequence ends,
\* transform_if_tree returns the empty string.
C2_UnderSuppliedRejected ==
    (tt.pc = "returned" /\ AllWellFormed(tt.lin) /\ UnderSupplied(tt.lin))
        => tt.ret = <<>>

\* C2 witness: the loop took every atom of a well-formed linear form whose
\* root declares more children than follow, output was written, and the
\* function returned the empty string.
C2_Witness ==
    /\ tt.pc = "returned"
    /\ AllWellFormed(tt.lin)
    /\ Len(tt.lin) >= 3
    /\ tt.i = Len(tt.lin)
    /\ DeclArity(tt.lin[1]) > 0
    /\ \A q \in 1..Len(tt.lin) : OpenSlots(tt.lin, 1, q) > 0
    /\ tt.stack_arity # <<>>
    /\ tt.mrl # <<>>
    /\ tt.ret = <<>>

\* C3: a linear form in which atoms follow after the root's subtree is
\* complete yields the empty string, and the reconstructor returns a
\* non-empty query only if the pre-order arities form exactly one legal
\* rooted tree.
C3_SurplusRejected ==
    (tt.pc = "returned" /\ AllWellFormed(tt.lin)) =>
        /\ (Surplus(tt.lin) => tt.ret = <<>>)
        /\ (tt.ret # <<>> => LegalTree(tt.lin))

\* C4: if any atom of the linear form has no @, or a suffix that is neither
\* s nor a non-negative decimal integer, the reconstructor returns the
\* empty string.
C4_MalformedRejected ==
    (tt.pc = "returned" /\ \E k \in 1..Len(tt.lin) : MalformedAtom(tt.lin[k]))
        => tt.ret = <<>>

\* C5: the reconstructor never throws: on every sequence of atoms it ends by
\* returning a string, and no exception reaches the caller.
C5_NeverThrows == tt.pc # "raised"

\* C6: whenever an atom body@s is processed while the arity stack is empty,
\* as the first atom or after every opened functor has been closed, the
\* reconstructor returns the empty string at that atom.
C6_StringLeafNeedsAncestor ==
    [][ ( /\ tt.pc = "loop"
          /\ tt.i < Len(tt.lin)
          /\ Len(SplitOn(tt.lin[tt.i + 1], "@")) = 2
          /\ LastSuffix(tt.lin[tt.i + 1]) = <<"s">>
          /\ tt.stack_arity = <<>> )
        => (tt'.pc = "returned" /\ tt'.ret = <<>>) ]_vars

\* C6 witness: a functor was opened and closed again, output was written,
\* and the string leaf that came next on the empty stack made the function
\* return the empty string.
C6_Witness ==
    /\ tt.pc = "returned"
    /\ tt.i >= 2
    /\ tt.i < Len(tt.lin)
    /\ LastSuffix(tt.lin[tt.i + 1]) = <<"s">>
    /\ Len(SplitOn(tt.lin[tt.i + 1], "@")) = 2
    /\ tt.stack_arity = <<>>
    /\ Contains(tt.mrl, ")")
    /\ tt.ret = <<>>

(***************************************************************************)
(* Reference notions for the claims about count_arguments, stated on the   *)
(* text alone (no scan).                                                   *)
(***************************************************************************)
\* parenthesis depth just before position j of s
DepthBefore(s, j) ==
    Cardinality({k \in 1..(j - 1) : s[k] = "("})
        - Cardinality({k \in 1..(j - 1) : s[k] = ")"})

\* positions at which the group opened at position 1 is closed again
GroupCloses(s) == {m \in 2..Len(s) : DepthBefore(s, m + 1) = 0}

FirstGroupBalanced(s) == Len(s) > 0 /\ s[1] = "(" /\ GroupCloses(s) # {}

GroupEnd(s) == CHOOSE m \in GroupCloses(s) : \A n \in GroupCloses(s) : m <= n

\* commas at depth exactly 1 inside the first group
CommasAtDepthOne(s) ==
    {j \in 2..(GroupEnd(s) - 1) : s[j] = "," /\ DepthBefore(s, j) = 1}

Structural == {"(", ")", ","}

StructuralPositions(s) == {j \in 1..Len(s) : s[j] \in Structural}

\* the first of ( ) , in s is a (
FirstStructuralIsOpen(s) ==
    /\ StructuralPositions(s) # {}
    /\ s[CHOOSE j \in StructuralPositions(s) :
            \A k \in StructuralPositions(s) : j <= k] = "("

\* C7: for a tail that begins with ( and whose first group is balanced,
\* count_arguments returns the number of commas at depth exactly 1 inside
\* that group, plus 1; deeper commas and the text after the group's closing
\* parenthesis do not count.
C7_ArityCounting ==
    (ca.pc = "done" /\ FirstGroupBalanced(ca.s))
        => ca.ret = Cardinality(CommasAtDepthOne(ca.s)) + 1

\* C7 witness: a returned scan of a balanced first group that holds a comma
\* at depth 2 and is followed by a comma after its closing parenthesis.
C7_Witness ==
    /\ ca.pc = "done"
    /\ FirstGroupBalanced(ca.s)
    /\ \E j \in 2..(GroupEnd(ca.s) - 1) :
            ca.s[j] = "," /\ DepthBefore(ca.s, j) = 2
    /\ \E j \in (GroupEnd(ca.s) + 1)..Len(ca.s) : ca.s[j] = ","
    /\ ca.ret = 1

\* C8 as stated: count_arguments returns 0 whenever the first character of
\* the tail is not an opening parenthesis.
C8_ZeroUnlessFirstCharOpen ==
    (ca.pc = "done" /\ (ca.s = <<>> \/ ca.s[1] # "(")) => ca.ret = 0

\* C8 as amended: count_arguments returns 0 whenever the first of the
\* characters ( ) , in the tail is not an opening parenthesis, or the tail
\* holds none of them; characters that are none of the three are skipped.
C8_ZeroUnlessFirstStructuralOpen ==
    (ca.pc = "done" /\ ~FirstStructuralIsOpen(ca.s)) => ca.ret = 0

\* C8 witness: a tail that starts with a token character, then a comma, and
\* holds an opening parenthesis later; the scan returned 0.
C8_Witness ==
    /\ ca.pc = "done"
    /\ Len(ca.s) >= 3
    /\ ca.s[1] \notin Structural
    /\ ca.s[2] = ","
    /\ \E j \in 3..Len(ca.s) : ca.s[j] = "("
    /\ ca.ret = 0

\* C9 as stated: the empty string yields 0, and a tail that begins with a
\* closing parenthesis (the functor is followed immediately by it) yields 1.
C9_EdgeCasesAsStated ==
    ca.pc = "done" =>
        /\ (ca.s = <<>> => ca.ret = 0)
        /\ ((Len(ca.s) > 0 /\ ca.s[1] = ")") => ca.ret = 1)

\* C9 as amended: the empty string yields 0, a tail that begins with a
\* closing parenthesis yields 0, and a tail that begins with an empty
\* parenthesis pair () yields 1.
C9_EdgeCases ==
    ca.pc = "done" =>
        /\ (ca.s = <<>> => ca.ret = 0)
        /\ ((Len(ca.s) > 0 /\ ca.s[1] = ")") => ca.ret = 0)
        /\ ((Len(ca.s) > 1 /\ ca.s[1] = "(" /\ ca.s[2] = ")") => ca.ret = 1)

\* C9 witness: the scan of a tail that begins with () returned 1.
C9_Witness ==
    /\ ca.pc = "done"
    /\ Len(ca.s) > 2
    /\ ca.s[1] = "("
    /\ ca.s[2] = ")"
    /\ ca.ret = 1

(***************************************************************************)
(* Reference notions for the claim about linearise, stated on the text of  *)
(* the escaped query alone.                                                *)
(***************************************************************************)
Separators == {"(", ")", ",", " "}

\* the offsets at which a token of s ends
TokenEnds(s) ==
    {e \in 1..Len(s) :
        s[e] \notin Separators /\ (e = Len(s) \/ s[e + 1] \in Separators)}

\* the end of the k-th token of s
KthTokenEnd(s, k) ==
    CHOOSE e \in TokenEnds(s) :
        Cardinality({x \in TokenEnds(s) : x <= e}) = k

\* the token of s that ends at e
TokenEndingAt(s, e) ==
    LET b == CHOOSE x \in 1..e :
                /\ \A y \in x..e : s[y] \notin Separators
                /\ (x = 1 \/ s[x - 1] \in Separators)
    IN SubSeq(s, b, e)

\* the number of direct arguments of the token occurrence that ends at e
ArityOfOccurrence(s, e) ==
    LET tail == SubSeq(s, e + 1, Len(s)) IN
    IF FirstGroupBalanced(tail)
    THEN Cardinality(CommasAtDepthOne(tail)) + 1
    ELSE 0

\* C10: every atom t@k that linearise emits for a token occurrence carries
\* the arity of that very occurrence in the escaped query (the number of
\* its direct arguments, 0 for a leaf), also when the same token occurs
\* several times or is a word-bounded part of another token or of a tagged
\* leaf; a token tagged @s is emitted unchanged.
C10_ArityOfOccurrence ==
    ln.pc = "returned" =>
        /\ Len(ln.lin) = Cardinality(TokenEnds(ln.mrl))
        /\ \A k \in 1..Len(ln.lin) :
              LET e == KthTokenEnd(ln.mrl, k)
                  tok == TokenEndingAt(ln.mrl, e) IN
              ln.lin[k] = IF EndsWith(tok, AtS) THEN tok
                          ELSE tok \o <<"@">>
                                   \o IntToStr(ArityOfOccurrence(ln.mrl, e))

\* C1: for every valid surface query q (functors, bare identifiers and
\* single-quoted string leaves, also with an interior space, comma,
\* apostrophe or parenthesis), functionalise(preprocess_mrl(q)) returns
\* exactly q.
C1_RoundTrip ==
    rt.pc \in {"returned", "raised"} => (rt.pc = "returned" /\ rt.ret = rt.q)

(***************************************************************************)
(* Reference notions for the claim about the comma sentinel, stated on     *)
(* the text of the query.                                                  *)
(***************************************************************************)
RECURSIVE CommaKindsFrom(_, _, _)
\* the commas of a surface query from position pos on, in text order:
\* "leaf" for a comma inside a quoted leaf, "sibling" for a comma between
\* arguments.  A quote met outside a leaf opens one; a quote inside a leaf
\* closes it when , or ) or the end of the text follows.
CommaKindsFrom(q, pos, inside) ==
    IF pos > Len(q) THEN <<>>
    ELSE IF q[pos] = "'" THEN
        CommaKindsFrom(q, pos + 1,
            IF inside THEN ~(pos = Len(q) \/ q[pos + 1] \in {",", ")"})
            ELSE TRUE)
    ELSE IF q[pos] = "," THEN
        <<IF inside THEN "leaf" ELSE "sibling">>
            \o CommaKindsFrom(q, pos + 1, inside)
    ELSE CommaKindsFrom(q, pos + 1, inside)

CommaKinds(q) == CommaKindsFrom(q, 1, FALSE)

RECURSIVE EncodedCommaKindsFrom(_, _)
\* the same sequence read off an encoded text: SAVECOMMA stands for a comma
\* of a leaf, a comma that is left separates siblings
EncodedCommaKindsFrom(mrl, pos) ==
    IF pos >= Len(mrl) THEN <<>>
    ELSE IF StartsWithAt(mrl, pos, SAVECOMMA) THEN
        <<"leaf">> \o EncodedCommaKindsFrom(mrl, pos + Len(SAVECOMMA))
    ELSE IF mrl[pos + 1] = "," THEN
        <<"sibling">> \o EncodedCommaKindsFrom(mrl, pos + 1)
    ELSE EncodedCommaKindsFrom(mrl, pos + 1)

EncodedCommaKinds(mrl) == EncodedCommaKindsFrom(mrl, 0)

\* C11: in the output of the encode step every comma inside a quoted leaf,
\* however many the leaf holds, is replaced by SAVECOMMA, and no comma that
\* separates sibling arguments is replaced.
C11_CommaEscaping ==
    rt.pc = "encoded" => EncodedCommaKinds(rt.mrl) = CommaKinds(rt.q)

(***************************************************************************)
(* Reference notions for the claim about insert_pass_through_words,        *)
(* stated on the arguments alone.                                          *)
(***************************************************************************)
\* the positions of the stemmed stream that hold the atom
StemPositions(atom, stemmed) ==
    {j \in 1..Len(stemmed) : stemmed[j] = atom}

\* the largest member of a non-empty set of positions
LastOf(S) == CHOOSE j \in S : \A k \in S : k <= j

\* the atom the reference puts in the place of one atom
PassThroughAtom(atom, non_stemmed, stemmed) ==
    IF Contains(atom, "@") \/ StemPositions(atom, stemmed) = {} THEN atom
    ELSE non_stemmed[LastOf(StemPositions(atom, stemmed))] \o AtS

\* the reference result for the three arguments
PassThroughReference(lin, non_stemmed, stemmed) ==
    LET ns == SplitOn(non_stemmed, " ")
        st == SplitOn(stemmed, " ") IN
    IF Len(ns) # Len(st) THEN lin
    ELSE [k \in 1..Len(lin) |-> PassThroughAtom(lin[k], ns, st)]

\* C12: insert_pass_through_words returns lin unchanged when the two
\* streams have different token counts; otherwise every atom that holds @
\* or equals no stemmed token is unchanged, and every atom without @ that
\* equals some stemmed token is replaced by the non-stemmed token at the
\* last such position, followed by @s.
C12_PassThroughReference ==
    ip.pc = "returned" =>
        ip.ret = PassThroughReference(ip.arg_lin, ip.arg_non_stemmed,
                                      ip.arg_stemmed)

\* C12 witness: the streams are aligned, a bare atom equals the stemmed
\* token at two positions whose non-stemmed tokens differ, and it was
\* replaced by the later one; another atom of lin was left as it was.
C12_Witness ==
    /\ ip.pc = "returned"
    /\ Len(ip.non_stemmed) = Len(ip.stemmed)
    /\ \E k \in 1..Len(ip.arg_lin) :
          /\ ~Contains(ip.arg_lin[k], "@")
          /\ \E j1, j2 \in StemPositions(ip.arg_lin[k], ip.stemmed) :
                /\ j1 < j2
                /\ ip.non_stemmed[j1] # ip.non_stemmed[j2]
                /\ j2 = LastOf(StemPositions(ip.arg_lin[k], ip.stemmed))
                /\ ip.ret[k] = ip.non_stemmed[j2] \o AtS
    /\ \E k \in 1..Len(ip.arg_lin) : ip.ret[k] = ip.arg_lin[k]

(***************************************************************************)
(* The claim about the scratch directory of check_MRL_tree.                *)
(***************************************************************************)
\* the call ended and it had made a scratch directory; what failed, if
\* anything did, was a statement of the try block (the rewriting, a write
\* of the files, the spawn, the read, a close, the removal at line 275),
\* not the removal the handler itself attempts
CheckListedExit ==
    /\ ck.pc \in {"returned", "raised"}
    /\ ck.temp_dir # "none"
    /\ \A k \in 1..Len(ck.failed) : ck.failed[k] # "rmtree_handler"

AtomBody(atom) == SplitOn(atom, "@")[1]

KeyBodies == {Keyval, Findkey}

\* the body between single quotes, the space sentinel decoded
QuotedBody(atom) ==
    <<"'">> \o ReplaceChar(AtomBody(atom), "€", " ") \o <<"'">>

RECURSIVE EmittedQuoted(_, _)
\* whether the k-th atom is written between quotes: it is a leaf, and its
\* suffix is s or the atom before it has the body keyval or findkey and
\* was not itself written between quotes
EmittedQuoted(lin, k) ==
    /\ DeclArity(lin[k]) = 0
    /\ \/ LastSuffix(lin[k]) = <<"s">>
       \/ /\ k > 1
          /\ AtomBody(lin[k - 1]) \in KeyBodies
          /\ ~EmittedQuoted(lin, k - 1)

\* the text written for the k-th atom
EmittedText(lin, k) ==
    IF EmittedQuoted(lin, k) THEN QuotedBody(lin[k]) ELSE AtomBody(lin[k])

\* what a step of the loop added to the output
Added(old, new) == SubSeq(new, Len(old) + 1, Len(new))

\* a text of , and ) alone
OnlyClosers(s) == \A k \in 1..Len(s) : s[k] \in {",", ")"}

\* the loop takes a leaf and goes on
LeafStep ==
    /\ tt.pc = "loop"
    /\ tt.i < Len(tt.lin)
    /\ DeclArity(tt.lin[tt.i + 1]) = 0
    /\ tt'.pc = "loop"

\* the loop takes a functor
FunctorStep ==
    /\ tt.pc = "loop"
    /\ tt.i < Len(tt.lin)
    /\ DeclArity(tt.lin[tt.i + 1]) > 0

CountOf(s, c) == Cardinality({k \in 1..Len(s) : s[k] = c})

\* every ( of s has its ) after it and every ) its ( before it
Balanced(s) ==
    /\ CountOf(s, "(") = CountOf(s, ")")
    /\ \A k \in 1..Len(s) :
          CountOf(SubSeq(s, 1, k), "(") >= CountOf(SubSeq(s, 1, k), ")")

\* no atom of lin holds one of the characters of cs
FreeOf(lin, cs) ==
    \A k \in 1..Len(lin) : \A m \in 1..Len(lin[k]) : lin[k][m] \notin cs

\* the stack and the output buffer after a prefix of the atoms
StackAgreesWithOutput ==
    /\ \A k \in 1..Len(tt.stack_arity) : tt.stack_arity[k] >= 1
    /\ Len(tt.stack_arity) = CountOf(tt.mrl, "(") - CountOf(tt.mrl, ")")
    /\ (tt.mrl # <<>> /\ tt.mrl[Len(tt.mrl)] = ",") => tt.stack_arity # <<>>

\* a result that is not empty is balanced and ends in neither , nor (
ResultClosed ==
    tt.ret # <<>> =>
        /\ Balanced(tt.ret)
        /\ tt.ret[Len(tt.ret)] \notin {",", "("}

\* C15 as stated: after any prefix of atoms with bodies free of
\* parentheses every entry of the arity stack is >= 1, the stack length is
\* the number of ( minus the number of ) in the output, and a , is the
\* last output symbol only when the stack is non-empty; so every non-empty
\* result has balanced parentheses and does not end in , or (.
C15_StackInvariantAsStated ==
    FreeOf(tt.lin, {"(", ")"}) =>
        /\ tt.pc = "loop" => StackAgreesWithOutput
        /\ tt.pc = "returned" => ResultClosed

\* C15 amended: the same for atoms with bodies free of parentheses and of
\* commas.
C15_StackInvariant ==
    FreeOf(tt.lin, {"(", ")", ","}) =>
        /\ tt.pc = "loop" => StackAgreesWithOutput
        /\ tt.pc = "returned" => ResultClosed

\* C15 witness: a functor was closed inside another, a comma was written
\* for the outer one, and the result that was returned is not empty.
C15_Witness ==
    /\ tt.pc = "returned"
    /\ FreeOf(tt.lin, {"(", ")", ","})
    /\ tt.i = Len(tt.lin)
    /\ tt.ret = tt.mrl
    /\ CountOf(tt.ret, "(") >= 2
    /\ \E k \in 2..Len(tt.ret) : tt.ret[k - 1] = ")" /\ tt.ret[k] = ","

(***************************************************************************)
(* The claim about insert_missing_at.                                      *)
(***************************************************************************)
\* C16: with insert_missing_at=True, add_missing_at leaves every atom that
\* carries a well-formed suffix (@s, or @k for a non-negative integer k of
\* any number of digits) unchanged and appends @s only to atoms that lack
\* a suffix, so functionalise of a well-formed linear form gives the same
\* result with and without insert_missing_at.
C16_MissingAtFrame ==
    LET atoms == SplitLin(fn.arg_lin) IN
    /\ (fn.pc = "tree" /\ fn.insert_missing_at) =>
          \A k \in 1..Len(atoms) :
              /\ WellFormedAtom(atoms[k]) => fn.lin[k] = atoms[k]
              /\ fn.lin[k] # atoms[k] =>
                    (~Contains(atoms[k], "@") /\ fn.lin[k] = atoms[k] \o AtS)
    /\ (fn.pc \in {"returned", "raised"} /\ fn.insert_missing_at
            /\ AllWellFormed(atoms)) =>
          [pc |-> fn.pc, ret |-> fn.ret] = functionalise(fn.arg_lin)

====
